---- MODULE Spec2Model ----
(***************************************************************************)
(* Model of app/main.py: the decoupled lip-sync service.                   *)
(*   POST /generate        start_generation  (lines 44-86)                 *)
(*   GET  /status/{job_id} get_status        (lines 90-126)                *)
(* Each HTTP request is a process; the local uploads/ directory, the       *)
(* generation provider's job store and the media host are the environment. *)
(***************************************************************************)
EXTENDS Integers, Sequences, FiniteSets, TLC

\* ------------------------------------------------------------ bounds ----
NumReqs == 2                       \* HTTP requests handled in one run
Reqs    == 1..NumReqs
Names   == 1..NumReqs              \* values uuid4().hex can take
JobIds  == 1..NumReqs              \* job ids a client can ask about

\* --------------------------------------------------- values and URLs ----
None == "<None>"
NoUrl == [host |-> None, src |-> None, id |-> 0]
NoFile == [writer |-> 0, full |-> FALSE]
NoExc == [type |-> None, status_code |-> 0, body |-> [t |-> None, v |-> None], msg |-> None]

\* the query values a client may send as video_choice
Choices == {"video1", "video2"}

\* PREDEFINED_VIDEOS: static key -> URL table
PREDEFINED_VIDEOS ==
    [k \in {"video1"} |-> [host |-> "res.cloudinary.com", src |-> "morgan_freeman", id |-> 0]]

\* the bodies a provider ApiError can carry: a plain string or a JSON object
Bodies == {[t |-> "str", v |-> "quota"], [t |-> "dict", v |-> "quota"]}

\* Python str(): the identity on a str, the repr of a dict
PyStr(b) == IF b.t = "str" THEN b.v ELSE "{'message': '" \o b.v \o "'}"

\* Python `a or b`: b when a is falsy (None or the empty string)
PyOr(a, b) == IF a \in {None, ""} THEN b ELSE a

ApiError(s, b) == [type |-> "ApiError", status_code |-> s, body |-> b, msg |-> PyStr(b)]
\* cloudinary.exceptions.Error: the host's HTTP status and message
CloudinaryError(s, m) ==
    [type |-> "CloudinaryError", status_code |-> s, body |-> [t |-> None, v |-> None], msg |-> m]
\* any other exception (OSError, KeyError, connection errors, ...)
OtherError(ty, m) ==
    [type |-> ty, status_code |-> 0, body |-> [t |-> None, v |-> None], msg |-> m]

\* what the providers can answer with an error
ThrottleErrors == {ApiError(429, b) : b \in Bodies}
NotFoundErrors == {ApiError(404, b) : b \in Bodies}
HostErrors == {CloudinaryError(401, "Invalid api_key"), CloudinaryError(420, "Rate limited")}
NetError == OtherError("ConnectionError", "connection reset")

\* secure_url of an uploaded local file: names the content that was sent
UploadFile(file) == [host |-> "res.cloudinary.com", src |-> "file", id |-> file.writer]
\* secure_url of an uploaded remote URL
UploadUrl(u) == [host |-> "res.cloudinary.com", src |-> u.host, id |-> u.id]
\* output_url of job j at the generation provider
OutputUrl(j) == [host |-> "api.sync.so", src |-> "output", id |-> j]

\* ------------------------------------------------------------- state ----
VARIABLES
    pc,               \* position of each request's handler
    endpoint,         \* "generate" | "status" | None
    video_choice,     \* query parameter of POST /generate
    job_id,           \* path parameter of GET /status/{job_id}
    audio_path,       \* the temp file's name (0: none chosen)
    public_audio_url, \* upload_result["secure_url"]
    generation,       \* what client.get returned
    resp,             \* the HTTP response
    fs,               \* the uploads/ directory: name -> file
    issued,           \* names uuid4 has produced
    jobs,             \* the provider's job store, index = job id
    raised,           \* history: the exception raised inside the try block
    ev,               \* history: external calls of the request, in order
    uploaded,         \* history: the file content handed to the media host
    createInput       \* history: the input list handed to create()

vars == <<pc, endpoint, video_choice, job_id, audio_path, public_audio_url, generation,
          resp, fs, issued, jobs, raised, ev, uploaded, createInput>>

reqVars == <<endpoint, video_choice, job_id>>

NoGeneration == [status |-> None, output_url |-> NoUrl, error |-> None]
NoInput == <<>>

\* --------------------------------------------------------- responses ----
BaseResp == [code |-> 0, job_id |-> 0, status |-> None, video_url |-> NoUrl,
             error |-> None, detail |-> None]

HTTPException(status_code, detail) ==
    [BaseResp EXCEPT !.code = status_code, !.detail = detail]

InvalidChoiceResponse == HTTPException(400, "Invalid video choice.")

\* line 52: video_choice in PREDEFINED_VIDEOS
IsPredefinedAny(c) == TRUE
IsPredefined(c) == c \in DOMAIN PREDEFINED_VIDEOS

\* line 56: uuid4().hex, a name no earlier call produced
uuid4Fixed(seen) == Names
uuid4(seen) == Names \ seen

\* line 77 with the decorator's status_code (line 44)
GenerateReturnOk(id) == [BaseResp EXCEPT !.code = 200, !.job_id = id + 1]
GenerateReturn(id) == [BaseResp EXCEPT !.code = 202, !.job_id = id]

\* lines 79-82
GenerateExceptAll500(e) ==
    HTTPException(500, "An unexpected error occurred: " \o e.msg)
GenerateExcept(e) ==
    IF e.type = "ApiError"
    THEN HTTPException(e.status_code, PyStr(e.body))
    ELSE HTTPException(500, "An unexpected error occurred: " \o e.msg)

\* lines 70-74: the input list of create()
CreateInputSwapped(choice, audio_url) ==
    <<PREDEFINED_VIDEOS[choice], PREDEFINED_VIDEOS[choice]>>
CreateInput(choice, audio_url) == <<PREDEFINED_VIDEOS[choice], audio_url>>

\* lines 105-108
CompletedResponseNoUrl(gen, secure_url) ==
    [BaseResp EXCEPT !.code = 200, !.status = gen.status]
CompletedResponse(gen, secure_url) ==
    [BaseResp EXCEPT !.code = 200, !.status = gen.status, !.video_url = secure_url]

\* lines 112-115
FailedResponseRaise(gen) ==
    HTTPException(500, PyOr(gen.error, "Lip-sync generation failed."))
FailedResponse(gen) ==
    [BaseResp EXCEPT !.code = 200, !.status = gen.status,
                     !.error = PyOr(gen.error, "Lip-sync generation failed.")]

\* line 118
StatusOnlyResponse(gen) == [BaseResp EXCEPT !.code = 200, !.status = gen.status]

\* lines 120-126
StatusExceptAll500(e) ==
    HTTPException(500, "An unexpected error occurred: " \o e.msg)
StatusExcept(e) ==
    IF e.type = "ApiError"
    THEN IF e.status_code = 404
         THEN HTTPException(404, "Job ID not found.")
         ELSE HTTPException(e.status_code, PyStr(e.body))
    ELSE HTTPException(500, "An unexpected error occurred: " \o e.msg)

\* ------------------------------------------------------------- Init ----
Init ==
    /\ pc = [r \in Reqs |-> "idle"]
    /\ endpoint = [r \in Reqs |-> None]
    /\ video_choice = [r \in Reqs |-> None]
    /\ job_id = [r \in Reqs |-> 0]
    /\ audio_path = [r \in Reqs |-> 0]
    /\ public_audio_url = [r \in Reqs |-> NoUrl]
    /\ generation = [r \in Reqs |-> NoGeneration]
    /\ resp = [r \in Reqs |-> BaseResp]
    /\ fs = [n \in {} |-> NoFile]
    /\ issued = {}
    /\ jobs = <<>>
    /\ raised = [r \in Reqs |-> NoExc]
    /\ ev = [r \in Reqs |-> <<>>]
    /\ uploaded = [r \in Reqs |-> NoFile]
    /\ createInput = [r \in Reqs |-> NoInput]

\* the except clause and the jump to finally, lines 79-83
Fail(r, e) ==
    /\ raised' = [raised EXCEPT ![r] = e]
    /\ resp' = [resp EXCEPT ![r] = GenerateExcept(e)]
    /\ pc' = [pc EXCEPT ![r] = "finally"]

Log(r, what) == ev' = [ev EXCEPT ![r] = Append(@, what)]

\* ------------------------------------------- POST /generate, 44-86 ----
\* lines 45-57: the request arrives, the key is validated, the name is chosen
StartGeneration(r) ==
    /\ pc[r] = "idle"
    /\ \E c \in Choices :
        /\ endpoint' = [endpoint EXCEPT ![r] = "generate"]
        /\ video_choice' = [video_choice EXCEPT ![r] = c]
        /\ IF ~IsPredefined(c)
           THEN /\ resp' = [resp EXCEPT ![r] = InvalidChoiceResponse]
                /\ pc' = [pc EXCEPT ![r] = "done"]
                /\ UNCHANGED <<audio_path, issued>>
           ELSE /\ \E n \in uuid4(issued) :
                    /\ audio_path' = [audio_path EXCEPT ![r] = n]
                    /\ issued' = issued \cup {n}
                /\ pc' = [pc EXCEPT ![r] = "open"]
                /\ UNCHANGED resp
    /\ UNCHANGED <<job_id, public_audio_url, generation, fs, jobs, raised, ev,
                   uploaded, createInput>>

\* line 61: open(audio_path, "wb") creates or truncates the file
OpenFile(r) ==
    /\ pc[r] = "open"
    /\ \/ /\ fs' = [n \in DOMAIN fs \cup {audio_path[r]} |->
                      IF n = audio_path[r] THEN [writer |-> r, full |-> FALSE] ELSE fs[n]]
          /\ pc' = [pc EXCEPT ![r] = "read"]
          /\ Log(r, "open")
          /\ UNCHANGED <<resp, raised>>
       \/ /\ Fail(r, OtherError("OSError", "cannot open"))
          /\ UNCHANGED <<fs, ev>>
    /\ UNCHANGED <<reqVars, audio_path, public_audio_url, generation, issued, jobs,
                   uploaded, createInput>>

\* line 62: content = await audio.read()  (the handler's only suspension point)
ReadAudio(r) ==
    /\ pc[r] = "read"
    /\ \/ /\ pc' = [pc EXCEPT ![r] = "write"]
          /\ UNCHANGED <<resp, raised>>
       \/ Fail(r, OtherError("Exception", "read failed"))
    /\ UNCHANGED <<reqVars, audio_path, public_audio_url, generation, fs, issued, jobs,
                   ev, uploaded, createInput>>

\* line 63 and the end of the with block: the body reaches the file
WriteFile(r) ==
    /\ pc[r] = "write"
    /\ \/ /\ fs' = [n \in DOMAIN fs |->
                      IF n = audio_path[r] THEN [writer |-> r, full |-> TRUE] ELSE fs[n]]
          /\ pc' = [pc EXCEPT ![r] = "upload"]
          /\ Log(r, "write")
          /\ UNCHANGED <<resp, raised>>
       \/ /\ Fail(r, OtherError("OSError", "No space left on device"))
          /\ UNCHANGED <<fs, ev>>
    /\ UNCHANGED <<reqVars, audio_path, public_audio_url, generation, issued, jobs,
                   uploaded, createInput>>

\* lines 65-66: cloudinary.uploader.upload(audio_path, resource_type="video")
UploadAudio(r) ==
    /\ pc[r] = "upload"
    /\ IF audio_path[r] \notin DOMAIN fs
       THEN /\ Fail(r, OtherError("OSError", "No such file"))
            /\ UNCHANGED <<public_audio_url, uploaded, ev>>
       ELSE /\ uploaded' = [uploaded EXCEPT ![r] = fs[audio_path[r]]]
            /\ \/ /\ public_audio_url' =
                        [public_audio_url EXCEPT ![r] = UploadFile(fs[audio_path[r]])]
                  /\ pc' = [pc EXCEPT ![r] = "create"]
                  /\ Log(r, "upload_ok")
                  /\ UNCHANGED <<resp, raised>>
               \/ /\ \E e \in HostErrors \cup {NetError} : Fail(r, e)
                  /\ Log(r, "upload_fail")
                  /\ UNCHANGED public_audio_url
    /\ UNCHANGED <<reqVars, audio_path, generation, fs, issued, jobs, createInput>>

\* lines 69-77: the registry lookup, client.create and the return
CreateJob(r) ==
    /\ pc[r] = "create"
    /\ IF video_choice[r] \notin DOMAIN PREDEFINED_VIDEOS
       THEN /\ Fail(r, OtherError("KeyError", video_choice[r]))
            /\ UNCHANGED <<jobs, createInput, ev>>
       ELSE /\ createInput' = [createInput EXCEPT ![r] =
                                 CreateInput(video_choice[r], public_audio_url[r])]
            /\ \/ /\ jobs' = Append(jobs,
                               [input |-> CreateInput(video_choice[r], public_audio_url[r]),
                                status |-> "PENDING", error |-> None])
                  /\ resp' = [resp EXCEPT ![r] = GenerateReturn(Len(jobs) + 1)]
                  /\ pc' = [pc EXCEPT ![r] = "finally"]
                  /\ Log(r, "create_ok")
                  /\ UNCHANGED raised
               \/ /\ \E e \in ThrottleErrors \cup {NetError} : Fail(r, e)
                  /\ Log(r, "create_fail")
                  /\ UNCHANGED jobs
    /\ UNCHANGED <<reqVars, audio_path, public_audio_url, generation, fs, issued,
                   uploaded>>

\* lines 83-86: the finally clause, then the response leaves the handler
FinallySkip(r) ==
    /\ pc[r] = "finally"
    /\ pc' = [pc EXCEPT ![r] = "done"]
    /\ UNCHANGED <<reqVars, audio_path, public_audio_url, generation, resp, fs, issued,
                   jobs, raised, ev, uploaded, createInput>>
Finally(r) ==
    /\ pc[r] = "finally"
    /\ IF audio_path[r] \in DOMAIN fs
       THEN /\ fs' = [n \in DOMAIN fs \ {audio_path[r]} |-> fs[n]]
            /\ Log(r, "remove")
       ELSE UNCHANGED <<fs, ev>>
    /\ pc' = [pc EXCEPT ![r] = "done"]
    /\ UNCHANGED <<reqVars, audio_path, public_audio_url, generation, resp, issued,
                   jobs, raised, uploaded, createInput>>

\* -------------------------------------- GET /status/{job_id}, 90-126 ----
StartStatus(r) ==
    /\ pc[r] = "idle"
    /\ \E j \in JobIds :
        /\ endpoint' = [endpoint EXCEPT ![r] = "status"]
        /\ job_id' = [job_id EXCEPT ![r] = j]
    /\ pc' = [pc EXCEPT ![r] = "get"]
    /\ UNCHANGED <<video_choice, audio_path, public_audio_url, generation, resp, fs,
                   issued, jobs, raised, ev, uploaded, createInput>>

\* what client.get(job_id) can do: the job's current record, or an error
GetResults(j) ==
    IF j \in DOMAIN jobs
    THEN {[ok |-> TRUE, exc |-> NoExc,
           gen |-> [status |-> jobs[j].status,
                    output_url |-> IF jobs[j].status = "COMPLETED" THEN OutputUrl(j) ELSE NoUrl,
                    error |-> jobs[j].error]]}
         \cup {[ok |-> FALSE, exc |-> e, gen |-> NoGeneration] :
                  e \in ThrottleErrors \cup {NetError}}
    ELSE {[ok |-> FALSE, exc |-> e, gen |-> NoGeneration] : e \in NotFoundErrors}

\* lines 98-118 up to the re-upload, with the except clauses of 120-126
GetStatus(r) ==
    /\ pc[r] = "get"
    /\ Log(r, "get")
    /\ \E res \in GetResults(job_id[r]) :
        IF ~res.ok
        THEN /\ raised' = [raised EXCEPT ![r] = res.exc]
             /\ resp' = [resp EXCEPT ![r] = StatusExcept(res.exc)]
             /\ pc' = [pc EXCEPT ![r] = "done"]
             /\ UNCHANGED generation
        ELSE /\ generation' = [generation EXCEPT ![r] = res.gen]
             /\ UNCHANGED raised
             /\ IF res.gen.status = "COMPLETED"
                THEN /\ pc' = [pc EXCEPT ![r] = "reupload"]
                     /\ UNCHANGED resp
                ELSE /\ pc' = [pc EXCEPT ![r] = "done"]
                     /\ resp' = [resp EXCEPT ![r] =
                                   IF res.gen.status = "FAILED"
                                   THEN FailedResponse(res.gen)
                                   ELSE StatusOnlyResponse(res.gen)]
    /\ UNCHANGED <<reqVars, audio_path, public_audio_url, fs, issued, jobs, uploaded,
                   createInput>>

\* lines 102-108: the result is uploaded to the media host and returned
ReuploadResult(r) ==
    /\ pc[r] = "reupload"
    /\ pc' = [pc EXCEPT ![r] = "done"]
    /\ \/ /\ resp' = [resp EXCEPT ![r] =
                        CompletedResponse(generation[r], UploadUrl(generation[r].output_url))]
          /\ Log(r, "upload_ok")
          /\ UNCHANGED raised
       \/ /\ \E e \in HostErrors \cup {NetError} :
                /\ raised' = [raised EXCEPT ![r] = e]
                /\ resp' = [resp EXCEPT ![r] = StatusExcept(e)]
          /\ Log(r, "upload_fail")
    /\ UNCHANGED <<reqVars, audio_path, public_audio_url, generation, fs, issued, jobs,
                   uploaded, createInput>>

\* ------------------------------------------ the generation provider ----
\* the job state machine behind client.get: PENDING -> PROCESSING -> terminal
JobProgress(j) ==
    /\ j \in DOMAIN jobs
    /\ \/ /\ jobs[j].status = "PENDING"
          /\ jobs' = [jobs EXCEPT ![j].status = "PROCESSING"]
       \/ /\ jobs[j].status = "PROCESSING"
          /\ \/ jobs' = [jobs EXCEPT ![j].status = "COMPLETED"]
             \/ \E s \in {"FAILED", "REJECTED"}, m \in {None, "bad audio"} :
                   jobs' = [jobs EXCEPT ![j].status = s, ![j].error = m]
    /\ UNCHANGED <<pc, reqVars, audio_path, public_audio_url, generation, resp, fs,
                   issued, raised, ev, uploaded, createInput>>

Next ==
    \/ \E r \in Reqs : StartGeneration(r)
    \/ \E r \in Reqs : OpenFile(r)
    \/ \E r \in Reqs : ReadAudio(r)
    \/ \E r \in Reqs : WriteFile(r)
    \/ \E r \in Reqs : UploadAudio(r)
    \/ \E r \in Reqs : CreateJob(r)
    \/ \E r \in Reqs : Finally(r)
    \/ \E r \in Reqs : StartStatus(r)
    \/ \E r \in Reqs : GetStatus(r)
    \/ \E r \in Reqs : ReuploadResult(r)
    \/ \E j \in JobIds : JobProgress(j)

Spec == Init /\ [][Next]_vars

\* ------------------------------------------------------- properties ----
Generate(r) == endpoint[r] = "generate"
Status(r) == endpoint[r] = "status"
Done(r) == pc[r] = "done"
Has(r, what) == \E i \in DOMAIN ev[r] : ev[r][i] = what
Count(r, what) == Cardinality({i \in DOMAIN ev[r] : ev[r][i] = what})
Threw(r) == raised[r] # NoExc
Terminal == {"COMPLETED", "FAILED", "REJECTED"}
NonTerminal == {"PENDING", "PROCESSING"}
Fallback == "Lip-sync generation failed."

\* C1: a POST /generate whose video_choice is not a registry key is answered
\* 400, and the request writes no file, uploads nothing and creates no job.
InvalidChoiceRejected ==
    \A r \in Reqs :
        (Generate(r) /\ video_choice[r] \notin DOMAIN PREDEFINED_VIDEOS) =>
            /\ Done(r)
            /\ resp[r].code = 400
            /\ ev[r] = <<>>
            /\ audio_path[r] = 0
            /\ uploaded[r] = NoFile
            /\ createInput[r] = NoInput

InvalidChoiceSeen ==
    \E r \in Reqs : Generate(r) /\ video_choice[r] = "video2" /\ Done(r)

FailureCarriesError ==
    \A r \in Reqs :
        (Status(r) /\ Done(r) /\ generation[r].status \in {"FAILED", "REJECTED"}) =>
            resp[r].error = (IF generation[r].error # None THEN generation[r].error
                             ELSE Fallback)

\* C4: a status query whose get() fails with a 404 ApiError is answered 404
\* and uploads nothing to the media host.
NotFoundIs404 ==
    \A r \in Reqs :
        (Status(r) /\ Done(r) /\ raised[r].type = "ApiError"
                   /\ raised[r].status_code = 404) =>
            /\ resp[r].code = 404
            /\ ~Has(r, "upload_ok") /\ ~Has(r, "upload_fail")
            /\ uploaded[r] = NoFile

NotFoundSeen ==
    \E r \in Reqs : Status(r) /\ Done(r) /\ raised[r].type = "ApiError"
                    /\ raised[r].status_code = 404 /\ job_id[r] \notin DOMAIN jobs

\* C5: a POST /generate whose upload and create() succeed answers 202 with
\* the id create() returned, and never calls get().
AcceptedWithoutPolling ==
    \A r \in Reqs :
        (Generate(r) /\ Has(r, "create_ok")) =>
            /\ resp[r].code = 202
            /\ resp[r].job_id \in DOMAIN jobs
            /\ jobs[resp[r].job_id].input = createInput[r]
            /\ \A q \in Reqs \ {r} : Has(q, "create_ok") => resp[q].job_id # resp[r].job_id
            /\ ~Has(r, "get")

AcceptedWhileJobAdvanced ==
    \E r \in Reqs : Generate(r) /\ Done(r) /\ Has(r, "create_ok")
                    /\ jobs[resp[r].job_id].status \in Terminal

\* C6 as stated: COMPLETED with output X is answered COMPLETED with a video
\* URL that is X or the hosted copy of X; a non-terminal status is answered
\* with the status alone.
CompletedAlwaysHasUrl ==
    \A r \in Reqs :
        (Status(r) /\ Done(r)) =>
            /\ generation[r].status = "COMPLETED" =>
                  /\ resp[r].status = "COMPLETED"
                  /\ resp[r].video_url \in {generation[r].output_url,
                                            UploadUrl(generation[r].output_url)}
            /\ generation[r].status \in NonTerminal =>
                  resp[r] = [BaseResp EXCEPT !.code = 200, !.status = generation[r].status]

\* C6 amended: COMPLETED with output X is answered COMPLETED with the hosted
\* copy of X when the re-upload succeeds, and with a 500 without video URL
\* when it fails; a non-terminal status is answered with the status alone.
CompletedUrlWhenHosted ==
    \A r \in Reqs :
        (Status(r) /\ Done(r)) =>
            /\ (generation[r].status = "COMPLETED" /\ ~Threw(r)) =>
                  /\ resp[r].code = 200
                  /\ resp[r].status = "COMPLETED"
                  /\ resp[r].video_url = UploadUrl(generation[r].output_url)
                  /\ resp[r].video_url # generation[r].output_url
                  /\ resp[r].error = None
            /\ (generation[r].status = "COMPLETED" /\ Threw(r)) =>
                  /\ resp[r].code = 500
                  /\ resp[r].status = None
                  /\ resp[r].video_url = NoUrl
            /\ generation[r].status \in NonTerminal =>
                  resp[r] = [BaseResp EXCEPT !.code = 200, !.status = generation[r].status]

CompletedSeen ==
    \E r \in Reqs : Status(r) /\ Done(r) /\ generation[r].status = "COMPLETED"
                    /\ ~Threw(r) /\ Has(r, "upload_ok")

\* C7 as stated: an observed FAILED or REJECTED job is answered with 500.
FailureIs500 ==
    \A r \in Reqs :
        (Status(r) /\ Done(r) /\ generation[r].status \in {"FAILED", "REJECTED"}) =>
            resp[r].code = 500

\* C7 amended: an observed FAILED or REJECTED job is answered with an
\* ordinary 200 response whose status field is the observed status.
FailureIs200 ==
    \A r \in Reqs :
        (Status(r) /\ Done(r) /\ generation[r].status \in {"FAILED", "REJECTED"}) =>
            /\ resp[r].code = 200
            /\ resp[r].status = generation[r].status
            /\ resp[r].detail = None

FailureSeen ==
    \E r \in Reqs : Status(r) /\ Done(r) /\ generation[r].status = "FAILED"
                    /\ generation[r].error = "bad audio"

OwnFileOnly ==
    \A r \in Reqs :
        Generate(r) =>
            /\ pc[r] \in {"read", "write", "upload"} =>
                  /\ audio_path[r] \in DOMAIN fs
                  /\ fs[audio_path[r]].writer = r
            /\ pc[r] = "upload" => fs[audio_path[r]] = [writer |-> r, full |-> TRUE]
            /\ uploaded[r] # NoFile => uploaded[r] = [writer |-> r, full |-> TRUE]
            /\ \A q \in Reqs \ {r} :
                  (audio_path[r] # 0 /\ audio_path[q] # 0) => audio_path[r] # audio_path[q]

TwoFilesInFlight ==
    \E r, q \in Reqs :
        /\ r # q
        /\ pc[r] = "upload" /\ pc[q] = "finally"
        /\ audio_path[r] \in DOMAIN fs /\ audio_path[q] \in DOMAIN fs

\* C10: within one POST /generate, create() is called at most once, only
\* after open, write and a successful upload of the full file, with the
\* registry URL of the chosen video and the URL that upload returned; no
\* job is created when writing or uploading fails; the removal of the temp
\* file is the request's last step, never followed by an upload.
CreateCalls(r) == Count(r, "create_ok") + Count(r, "create_fail")
====
